---- MODULE Spec2Model ----
(***************************************************************************)
(* Model of src/enhanced_code_storage.py: CodeQualityAnalyzer and          *)
(* EnhancedCodeStorage (store_code_pattern, find_similar_code), together   *)
(* with the external store the records are handed to.                      *)
(*                                                                         *)
(* Text (code, name, language, ids) is a sequence of one-character         *)
(* strings, so that lower(), replace() and the regular expressions are     *)
(* computed character by character.  An Optional argument is None or       *)
(* Some(v).  A float rating r is the integer 10 * r (tenths).              *)
(***************************************************************************)
EXTENDS Integers, Sequences, FiniteSets, TLC

\* ------------------------------------------------------------------------
\* Bounds
\* ------------------------------------------------------------------------
NumCallers == 2     \* concurrent callers of the storage object
MaxCalls == 3       \* store_code_pattern calls per behaviour of Spec
MaxBuilds == 2      \* store_code_pattern calls per behaviour of SpecBuild
MaxVersion == 2     \* version numbers submitted are 1..MaxVersion
MaxRepeat == 10     \* longest generated code text has MaxRepeat "if" lines

\* ------------------------------------------------------------------------
\* Optional values
\* ------------------------------------------------------------------------
None == [none |-> TRUE]
Some(v) == [some |-> v]
IsNone(o) == o = None
Get(o) == o.some

\* ------------------------------------------------------------------------
\* Characters and text
\* ------------------------------------------------------------------------
UpperCase == <<"A", "B", "C", "D", "E", "F", "G", "H", "I", "J", "K", "L", "M", "N", "O", "P", "Q", "R", "S", "T", "U", "V", "W", "X", "Y", "Z">>
LowerCase == <<"a", "b", "c", "d", "e", "f", "g", "h", "i", "j", "k", "l", "m", "n", "o", "p", "q", "r", "s", "t", "u", "v", "w", "x", "y", "z">>
Digits == <<"0", "1", "2", "3", "4", "5", "6", "7", "8", "9">>

Range(s) == {s[i] : i \in DOMAIN s}

\* \w of the re module, over the characters the model uses
WordChars == Range(UpperCase) \cup Range(LowerCase) \cup Range(Digits) \cup {"_"}
\* \s of the re module
SpaceChars == {" ", "\n", "\t"}

IsWord(c) == c \in WordChars

\* str.lower() on one character
LowerChar(c) ==
  IF \E i \in DOMAIN UpperCase : UpperCase[i] = c
    THEN LowerCase[CHOOSE i \in DOMAIN UpperCase : UpperCase[i] = c]
    ELSE c

\* str.lower()
Lower(s) == [i \in DOMAIN s |-> LowerChar(s[i])]

\* str.replace(old, new) for one-character old and new
Replace(s, old, new) == [i \in DOMAIN s |-> IF s[i] = old THEN new ELSE s[i]]

\* str(n) of a non-negative int, in decimal
RECURSIVE Str(_)
Str(n) == IF n < 10 THEN <<Digits[n + 1]>> ELSE Str(n \div 10) \o <<Digits[(n % 10) + 1]>>

\* s occurs in text at position i
OccursAt(s, text, i) ==
  /\ i >= 1
  /\ i + Len(s) - 1 <= Len(text)
  /\ \A k \in 1..Len(s) : text[i + k - 1] = s[k]

\* \b between text[i-1] and text[i] (i in 1..Len(text)+1)
WordBoundary(text, i) ==
  LET before == i > 1 /\ IsWord(text[i - 1])
      after == i <= Len(text) /\ IsWord(text[i])
  IN before # after

\* the keyword counted wherever it occurs, as if the pattern had no \b
CountWord_Substring(kw, text) ==
  Cardinality({i \in 1..Len(text) : OccursAt(kw, text, i)})

\* len(re.findall(r'\bkw\b', text)) for a keyword kw made of word characters
CountWord(kw, text) ==
  Cardinality({i \in 1..Len(text) :
     /\ OccursAt(kw, text, i)
     /\ WordBoundary(text, i)
     /\ WordBoundary(text, i + Len(kw))})

\* ------------------------------------------------------------------------
\* CodeQualityAnalyzer
\* ------------------------------------------------------------------------
PYTHON == <<"p", "y", "t", "h", "o", "n">>

control_statements ==
  << <<"i", "f">>, <<"e", "l", "i", "f">>, <<"e", "l", "s", "e">>, <<"f", "o", "r">>,
     <<"w", "h", "i", "l", "e">>, <<"w", "i", "t", "h">>, <<"t", "r", "y">>,
     <<"e", "x", "c", "e", "p", "t">> >>

RECURSIVE SumCounts(_, _, _)
SumCounts(stmts, text, k) ==
  IF k > Len(stmts) THEN 0 ELSE CountWord(stmts[k], text) + SumCounts(stmts, text, k + 1)

calculate_cyclomatic_complexity(code, language) ==
  IF Lower(language) = PYTHON
    THEN 1 + SumCounts(control_statements, code, 1)
    ELSE 1

\* index of the first occurrence of s in text at or after position i, 0 if none
FirstAtOrAfter(s, text, i) ==
  IF \E j \in i..Len(text) : OccursAt(s, text, j)
    THEN CHOOSE j \in i..Len(text) :
           OccursAt(s, text, j) /\ \A k \in i..(j - 1) : ~OccursAt(s, text, k)
    ELSE 0

\* len(re.findall(q [\s\S]*? q, text)) for a three-character delimiter q:
\* non-overlapping spans, leftmost first, each closed by the nearest delimiter
RECURSIVE CountSpans(_, _, _)
CountSpans(q, text, i) ==
  LET open == FirstAtOrAfter(q, text, i)
      close == IF open = 0 THEN 0 ELSE FirstAtOrAfter(q, text, open + Len(q))
  IN IF open = 0 \/ close = 0 THEN 0 ELSE 1 + CountSpans(q, text, close + Len(q))

\* first position at or after i whose character is not in class
SkipWhile(text, i, class) ==
  IF \E j \in i..Len(text) : text[j] \notin class
    THEN CHOOSE j \in i..Len(text) :
           text[j] \notin class /\ \A k \in i..(j - 1) : text[k] \in class
    ELSE Len(text) + 1

\* r'\bkw\s+\w+\s*[closers]' matches at position i
DefinitionAt(kw, closers, text, i) ==
  LET a == i + Len(kw)
      b == SkipWhile(text, a, SpaceChars)
      c == SkipWhile(text, b, WordChars)
      d == SkipWhile(text, c, SpaceChars)
  IN /\ OccursAt(kw, text, i)
     /\ WordBoundary(text, i)
     /\ b > a
     /\ c > b
     /\ d <= Len(text)
     /\ text[d] \in closers

CountDefinitions(kw, closers, text) ==
  Cardinality({i \in 1..Len(text) : DefinitionAt(kw, closers, text, i)})

\* docstring_count: triple-quoted spans of either quote style
DocstringCount(code) ==
  CountSpans(<<"\"", "\"", "\"">>, code, 1) + CountSpans(<<"'", "'", "'">>, code, 1)

\* total_definitions = func_count + class_count
DefinitionCount(code) ==
  CountDefinitions(<<"d", "e", "f">>, {"("}, code)
    + CountDefinitions(<<"c", "l", "a", "s", "s">>, {":", "("}, code)

\* a float that is the quotient of two small integers, kept exact
Ratio(num, den) == [num |-> num, den |-> den]

\* the coverage without the min(1.0, ...)
calculate_doc_coverage_NoClamp(code, language) ==
  IF Lower(language) = PYTHON
    THEN IF DefinitionCount(code) = 0 THEN Ratio(1, 1)
         ELSE Ratio(DocstringCount(code), DefinitionCount(code))
    ELSE Ratio(1, 2)

\* calculate_doc_coverage: 1.0 is Ratio(1, 1), 0.5 is Ratio(1, 2)
calculate_doc_coverage(code, language) ==
  IF Lower(language) = PYTHON
    THEN LET docstring_count == DocstringCount(code)
             total_definitions == DefinitionCount(code)
         IN IF total_definitions = 0 THEN Ratio(1, 1)
            ELSE IF docstring_count >= total_definitions THEN Ratio(1, 1)
            ELSE Ratio(docstring_count, total_definitions)
    ELSE Ratio(1, 2)

\* round(d / n, 2) in hundredths, ties to even
RoundedRatio(d, n) ==
  IF d >= n THEN 100
  ELSE LET q == (100 * d) \div n
           r == (100 * d) % n
       IN IF 2 * r > n \/ (2 * r = n /\ q % 2 = 1) THEN q + 1 ELSE q

\* ------------------------------------------------------------------------
\* EnhancedCodeStorage.store_code_pattern
\* ------------------------------------------------------------------------
\* the thresholds compared with < in place of <=
DetermineComplexityLevel_Strict(complexity_level, cyclomatic_complexity) ==
  IF IsNone(complexity_level)
    THEN IF cyclomatic_complexity < 5 THEN "simple"
         ELSE IF cyclomatic_complexity < 10 THEN "intermediate"
         ELSE "advanced"
    ELSE Get(complexity_level)

\* "if not complexity_level:" in place of "if complexity_level is None:"
DetermineComplexityLevel_Falsy(complexity_level, cyclomatic_complexity) ==
  IF IsNone(complexity_level) \/ Get(complexity_level) = ""
    THEN IF cyclomatic_complexity <= 5 THEN "simple"
         ELSE IF cyclomatic_complexity <= 10 THEN "intermediate"
         ELSE "advanced"
    ELSE Get(complexity_level)

\* "if complexity_level is None: ..." (the tier thresholds)
DetermineComplexityLevel(complexity_level, cyclomatic_complexity) ==
  IF IsNone(complexity_level)
    THEN IF cyclomatic_complexity <= 5 THEN "simple"
         ELSE IF cyclomatic_complexity <= 10 THEN "intermediate"
         ELSE "advanced"
    ELSE Get(complexity_level)

\* "tags or []", "dependencies or []"
OrEmptyList(list) == IF IsNone(list) \/ Get(list) = <<>> THEN <<>> ELSE Get(list)

\* the id from the name as given, neither lowercased nor with "_" for spaces
AssignId_Unnormalized(name, version) == name \o <<"_">> \o Str(version)

\* the id without the lower()
AssignId_NoLower(name, version) == Replace(name, " ", "_") \o <<"_">> \o Str(version)

\* f"{name.lower().replace(' ', '_')}_{version}"
AssignId(name, version) == Replace(Lower(name), " ", "_") \o <<"_">> \o Str(version)

\* the rating added under "if user_rating:" instead of "is not None"
WithUserRating_Truthy(record, user_rating) ==
  IF IsNone(user_rating) \/ Get(user_rating) = 0 THEN record
  ELSE record @@ ("user_rating" :> Get(user_rating))

\* if user_rating is not None: information["user_rating"] = user_rating
WithUserRating(record, user_rating) ==
  IF IsNone(user_rating) THEN record
  ELSE record @@ ("user_rating" :> Get(user_rating))

\* the dict built by store_code_pattern from its arguments a at time now;
\* the key user_rating exists only when a rating was passed
Information(a, now) ==
  LET cyclomatic_complexity == calculate_cyclomatic_complexity(a.code, a.language)
      doc_coverage == calculate_doc_coverage(a.code, a.language)
      rounded == RoundedRatio(doc_coverage.num, doc_coverage.den)
      base ==
        [type |-> "code_pattern",
         name |-> a.name,
         language |-> a.language,
         code |-> a.code,
         explanation |-> a.explanation,
         tags |-> OrEmptyList(a.tags),
         complexity_level |-> DetermineComplexityLevel(a.complexity_level, cyclomatic_complexity),
         dependencies |-> OrEmptyList(a.dependencies),
         quality_metrics |-> [cyclomatic_complexity |-> cyclomatic_complexity,
                              documentation_coverage |-> rounded],
         version_info |-> [version |-> a.version,
                           previous_version_id |-> a.previous_version_id,
                           change_log |-> a.change_log,
                           updated_at |-> now],
         id |-> AssignId(a.name, a.version)]
  IN WithUserRating(base, a.user_rating)

\* ------------------------------------------------------------------------
\* EnhancedCodeStorage.find_similar_code
\* ------------------------------------------------------------------------
\* truth value of an Optional argument in "if arg:"; empty is the falsy
\* value of the argument's type ("" for str, 0 for float, [] for list)
Truthy(o, empty) == ~IsNone(o) /\ Get(o) # empty

Clause(field, value) == <<[clause |-> field, value |-> value]>>

\* the filters list with the tags clause appended before the rating clause
Filters_TagsFirst(q) ==
  (IF Truthy(q.language, <<>>) THEN Clause("language", Get(q.language)) ELSE <<>>)
  \o (IF Truthy(q.complexity_level, <<>>) THEN Clause("complexity_level", Get(q.complexity_level)) ELSE <<>>)
  \o (IF Truthy(q.required_tags, <<>>) THEN Clause("tags", Get(q.required_tags)) ELSE <<>>)
  \o (IF Truthy(q.min_rating, 0) THEN Clause("user_rating", Get(q.min_rating)) ELSE <<>>)

\* the filters list of find_similar_code, each entry before its formatting
Filters(q) ==
  (IF Truthy(q.language, <<>>) THEN Clause("language", Get(q.language)) ELSE <<>>)
  \o (IF Truthy(q.complexity_level, <<>>) THEN Clause("complexity_level", Get(q.complexity_level)) ELSE <<>>)
  \o (IF Truthy(q.min_rating, 0) THEN Clause("user_rating", Get(q.min_rating)) ELSE <<>>)
  \o (IF Truthy(q.required_tags, <<>>) THEN Clause("tags", Get(q.required_tags)) ELSE <<>>)

\* str(x) of a float x with one decimal, x given in tenths: 40 is "4.0"
FormatFloat(tenths) ==
  LET abs == IF tenths < 0 THEN 0 - tenths ELSE tenths
  IN (IF tenths < 0 THEN <<"-">> ELSE <<>>) \o Str(abs \div 10) \o <<".">> \o Str(abs % 10)

\* sep.join(texts)
RECURSIVE Join(_, _)
Join(sep, texts) ==
  IF Len(texts) = 0 THEN <<>>
  ELSE IF Len(texts) = 1 THEN texts[1]
  ELSE texts[1] \o sep \o Join(sep, Tail(texts))

\* repr() of a list of strings without quotes or escapes: ['a', 'b']
ReprList(list) ==
  <<"[">> \o Join(<<",", " ">>, [i \in DOMAIN list |-> <<"'">> \o list[i] \o <<"'">>]) \o <<"]">>

\* the f-string appended to filters for one clause
FormatClause(c) ==
  IF c.clause = "language"
    THEN <<"l", "a", "n", "g", "u", "a", "g", "e", "=", "'">> \o c.value \o <<"'">>
  ELSE IF c.clause = "complexity_level"
    THEN <<"c", "o", "m", "p", "l", "e", "x", "i", "t", "y", "_", "l", "e", "v", "e", "l", "=", "'">> \o c.value \o <<"'">>
  ELSE IF c.clause = "user_rating"
    THEN <<"u", "s", "e", "r", "_", "r", "a", "t", "i", "n", "g", ">", "=">> \o FormatFloat(c.value)
  ELSE <<"t", "a", "g", "s", " ", "i", "n", "c", "l", "u", "d", "e", " ">> \o ReprList(c.value)

\* filter_str = " AND ".join(filters)
FilterStr(list) ==
  Join(<<" ", "A", "N", "D", " ">>, [i \in DOMAIN list |-> FormatClause(list[i])])

\* ------------------------------------------------------------------------
\* The external store (ingest interface)
\* ------------------------------------------------------------------------
\* create(record): the answer of a store holding the records stored
StoreAnswer(stored, record, available) ==
  IF ~available THEN "Unavailable"
  ELSE IF record.id \in DOMAIN stored THEN "DuplicateId"
  ELSE "Ok"

\* the records held after create(record) was answered
StoreAfter(stored, record, available) ==
  IF StoreAnswer(stored, record, available) = "Ok"
    THEN stored @@ (record.id :> record)
    ELSE stored

\* ------------------------------------------------------------------------
\* State
\* ------------------------------------------------------------------------
VARIABLES
  pc,           \* pc[p]: "idle", or "built" between the dict and the hand-off
  args,         \* args[p]: arguments of caller p's current or last call
  information,  \* information[p]: the dict under construction
  filters,      \* filters[p]: the filters list of p's last find_similar_code
  filter_str,   \* filter_str[p]: the joined filters p's last search printed
  ret,          \* ret[p]: None while running, Some(value returned) after
  answer,       \* answer[p]: the store's answer to p's last hand-off
  store,        \* id -> record held by the external store
  createCalls,  \* create requests handed to the store so far
  getCalls,     \* lookups (get) made against the store so far
  clock         \* datetime.now(), counted in store_code_pattern calls

vars == <<pc, args, information, filters, filter_str, ret, answer, store, createCalls, getCalls, clock>>

Callers == 1..NumCallers

NoArgs == [op |-> "none"]
EmptyStore == [i \in {} |-> None]

Init ==
  /\ pc = [p \in Callers |-> "idle"]
  /\ args = [p \in Callers |-> NoArgs]
  /\ information = [p \in Callers |-> None]
  /\ filters = [p \in Callers |-> <<>>]
  /\ filter_str = [p \in Callers |-> <<>>]
  /\ ret = [p \in Callers |-> None]
  /\ answer = [p \in Callers |-> None]
  /\ store = EmptyStore
  /\ createCalls = 0
  /\ getCalls = 0
  /\ clock = 0

\* the build with the id taken from the time of the call, not the version
Build_IdFromClock(p, a) ==
  /\ pc[p] = "idle"
  /\ pc' = [pc EXCEPT ![p] = "built"]
  /\ args' = [args EXCEPT ![p] = a]
  /\ information' = [information EXCEPT ![p] =
                       Some([Information(a, clock + 1) EXCEPT !.id = AssignId(a.name, clock + 1)])]
  /\ ret' = [ret EXCEPT ![p] = None]
  /\ answer' = [answer EXCEPT ![p] = None]
  /\ clock' = clock + 1
  /\ UNCHANGED <<filters, filter_str, store, createCalls, getCalls>>

\* store_code_pattern, from entry to the assignment of information["id"]
Build(p, a) ==
  /\ pc[p] = "idle"
  /\ pc' = [pc EXCEPT ![p] = "built"]
  /\ args' = [args EXCEPT ![p] = a]
  /\ information' = [information EXCEPT ![p] = Some(Information(a, clock + 1))]
  /\ ret' = [ret EXCEPT ![p] = None]
  /\ answer' = [answer EXCEPT ![p] = None]
  /\ clock' = clock + 1
  /\ UNCHANGED <<filters, filter_str, store, createCalls, getCalls>>

\* the hand-off as an update in place: an accepted new version also takes
\* the place of the record its previous_version_id names
HandOff_InPlace(p) ==
  /\ pc[p] = "built"
  /\ \E available \in BOOLEAN :
       LET record == Get(information[p])
           previous == record.version_info.previous_version_id
           after == StoreAfter(store, record, available)
       IN /\ answer' = [answer EXCEPT ![p] = Some(StoreAnswer(store, record, available))]
          /\ store' = IF /\ StoreAnswer(store, record, available) = "Ok"
                         /\ previous # None
                         /\ Get(previous) \in DOMAIN store
                        THEN [after EXCEPT ![Get(previous)] = record]
                        ELSE after
  /\ createCalls' = createCalls + 1
  /\ ret' = [ret EXCEPT ![p] = information[p]]
  /\ pc' = [pc EXCEPT ![p] = "idle"]
  /\ UNCHANGED <<args, information, filters, filter_str, getCalls, clock>>

\* store_code_pattern, the hand-off ("Would store pattern ...") and return
HandOff(p) ==
  /\ pc[p] = "built"
  /\ \E available \in BOOLEAN :
       /\ answer' = [answer EXCEPT ![p] =
                       Some(StoreAnswer(store, Get(information[p]), available))]
       /\ store' = StoreAfter(store, Get(information[p]), available)
  /\ createCalls' = createCalls + 1
  /\ ret' = [ret EXCEPT ![p] = information[p]]
  /\ pc' = [pc EXCEPT ![p] = "idle"]
  /\ UNCHANGED <<args, information, filters, filter_str, getCalls, clock>>

\* find_similar_code: builds and prints the filters, returns []
FindSimilarCode(p, q) ==
  /\ pc[p] = "idle"
  /\ args' = [args EXCEPT ![p] = q]
  /\ filters' = [filters EXCEPT ![p] = Filters(q)]
  /\ filter_str' = [filter_str EXCEPT ![p] = FilterStr(Filters(q))]
  /\ ret' = [ret EXCEPT ![p] = Some(<<>>)]
  /\ information' = [information EXCEPT ![p] = None]
  /\ answer' = [answer EXCEPT ![p] = None]
  /\ UNCHANGED <<pc, store, createCalls, getCalls, clock>>

\* CodeQualityAnalyzer.calculate_cyclomatic_complexity called on its own
CalculateCyclomaticComplexity(p, code, language) ==
  /\ pc[p] = "idle"
  /\ args' = [args EXCEPT ![p] = [op |-> "complexity", code |-> code, language |-> language]]
  /\ ret' = [ret EXCEPT ![p] = Some(calculate_cyclomatic_complexity(code, language))]
  /\ information' = [information EXCEPT ![p] = None]
  /\ answer' = [answer EXCEPT ![p] = None]
  /\ UNCHANGED <<pc, filters, filter_str, store, createCalls, getCalls, clock>>

\* CodeQualityAnalyzer.calculate_doc_coverage called on its own
CalculateDocCoverage(p, code, language) ==
  /\ pc[p] = "idle"
  /\ args' = [args EXCEPT ![p] = [op |-> "coverage", code |-> code, language |-> language]]
  /\ ret' = [ret EXCEPT ![p] = Some(calculate_doc_coverage(code, language))]
  /\ information' = [information EXCEPT ![p] = None]
  /\ answer' = [answer EXCEPT ![p] = None]
  /\ UNCHANGED <<pc, filters, filter_str, store, createCalls, getCalls, clock>>

\* ------------------------------------------------------------------------
\* Inputs
\* ------------------------------------------------------------------------
StoreArgs(name, code, language, complexity_level, user_rating, version, previous_version_id) ==
  [op |-> "store", name |-> name, code |-> code,
   explanation |-> "explanation", language |-> language, tags |-> None,
   complexity_level |-> complexity_level, dependencies |-> None,
   user_rating |-> user_rating, version |-> version,
   previous_version_id |-> previous_version_id, change_log |-> None]

FindArgs(language, complexity_level, min_rating, required_tags) ==
  [op |-> "find", query |-> "query", language |-> language,
   complexity_level |-> complexity_level, min_rating |-> min_rating,
   required_tags |-> required_tags]

PythonCaps == <<"P", "y", "t", "h", "o", "n">>
JAVASCRIPT == <<"j", "a", "v", "a", "s", "c", "r", "i", "p", "t">>
CodeExample == <<"d", "e", "f", " ", "f", "(", "x", ")", ":", "\n", " ", "i", "f", " ", "x", ":", " ", "r", "e", "t", "u", "r", "n", " ", "1", "\n", " ", "e", "l", "s", "e", ":", " ", "r", "e", "t", "u", "r", "n", " ", "0">>
CodePlain == <<"x", " ", "=", " ", "1">>
CodeNearWords == <<"e", "l", "i", "f", " ", "i", "f", "f", "y", " ", "x", "_", "i", "f", " ", "e", "l", "s", "e", "_">>
IfLine == <<"i", "f", " ", "x", ":", "\n">>
NameAb == <<"A", " ", "b">>
NameaB == <<"a", " ", "B">>
NameBinary == <<"B", "i", "n", "a", "r", "y", " ", "s", "e", "a", "r", "c", "h">>
NameTab == <<"T", "\t", "_", "9">>

RECURSIVE Repeat(_, _)
Repeat(s, n) == IF n = 0 THEN <<>> ELSE s \o Repeat(s, n - 1)

\* ids a caller may name as predecessor: none, or the id of any version
PreviousIds == {None} \cup {Some(AssignId(NameAb, v)) : v \in 1..MaxVersion}

\* submissions of Spec: every version with every predecessor
ChainInputs ==
  {StoreArgs(NameAb, CodePlain, PYTHON, None, None, version, prev) :
     version \in 1..MaxVersion, prev \in PreviousIds}

\* the submissions of one pattern's history: version 1 without predecessor,
\* version n naming the id of version n - 1
VersionInputs ==
  {StoreArgs(NameAb, CodePlain, PYTHON, None, None, 1, None)}
  \cup {StoreArgs(NameAb, CodePlain, PYTHON, None, None, version,
                   Some(AssignId(NameAb, version - 1))) : version \in 2..MaxVersion}

INTERMEDIATE == <<"i", "n", "t", "e", "r", "m", "e", "d", "i", "a", "t", "e">>
ALGORITHM == <<"a", "l", "g", "o", "r", "i", "t", "h", "m">>
SEARCHING == <<"s", "e", "a", "r", "c", "h", "i", "n", "g">>

FindInputs ==
  {FindArgs(language, level, min_rating, tags) :
     language \in {None, Some(<<>>), Some(PYTHON)},
     level \in {None, Some(<<>>), Some(INTERMEDIATE)},
     tags \in {None, Some(<<>>), Some(<<ALGORITHM>>), Some(<<ALGORITHM, SEARCHING>>)},
     min_rating \in {None, Some(0), Some(40), Some(45)}}

\* submissions of SpecBuild: code texts scoring on both sides of each tier
\* threshold, overrides, names and versions, ratings around both ends of
\* the range
CodeTexts ==
  {CodeExample, CodePlain, CodeNearWords}
  \cup {Repeat(IfLine, n) : n \in (4..5) \cup (9..MaxRepeat)}
Overrides == {None, Some("simple"), Some("")}
Ratings == {Some(-1), Some(0), Some(50), Some(51)}
Names == {NameAb, NameaB, NameBinary, NameTab}

BuildInputs ==
  {StoreArgs(NameAb, code, PYTHON, level, None, 1, None) : code \in CodeTexts, level \in Overrides}
  \cup {StoreArgs(NameAb, CodeExample, language, None, None, 1, None) :
          language \in {PythonCaps, JAVASCRIPT}}
  \cup {StoreArgs(name, CodePlain, PYTHON, None, None, version, None) :
          name \in Names, version \in 1..MaxVersion}
  \cup {StoreArgs(NameAb, CodePlain, PYTHON, None, rating, 1, None) : rating \in Ratings}

\* texts and language tags for the analyzer on its own
PythonUpper == <<"P", "Y", "T", "H", "O", "N">>
CodeAllKeywords == <<"f", "o", "r", " ", "w", "h", "i", "l", "e", " ", "w", "i", "t", "h", " ", "t", "r", "y", " ", "e", "x", "c", "e", "p", "t", " ", "e", "l", "i", "f", " ", "e", "l", "s", "e", " ", "i", "f">>
CodeKeywordInString == <<"x", " ", "=", " ", "\"", "i", "f", "\"", " ", "#", " ", "e", "l", "s", "e">>
CodeEmpty == <<>>
CodeDocumented == <<"d", "e", "f", " ", "g", "(", ")", ":", "\n", " ", "'", "'", "'", "d", "o", "c", "'", "'", "'", "\n">>
CodeTwoDocs == <<"d", "e", "f", " ", "g", "(", ")", ":", "\n", " ", "'", "'", "'", "a", "'", "'", "'", "\n", " ", "\"", "\"", "\"", "b", "\"", "\"", "\"">>
CodeHalf == <<"c", "l", "a", "s", "s", " ", "K", ":", "\n", " ", "d", "e", "f", " ", "m", " ", "(", "s", "e", "l", "f", ")", ":", "\n", " ", " ", "\"", "\"", "\"", "d", "\"", "\"", "\"">>
CodeThird == <<"c", "l", "a", "s", "s", " ", "K", "(", "B", ")", ":", "\n", " ", "'", "'", "'", "d", "'", "'", "'", "\n", "d", "e", "f", " ", "f", "(", "x", ")", ":", " ", "p", "a", "s", "s", "\n", "d", "e", "f", " ", " ", "g", "\t", "(", "y", ")", ":", " ", "p", "a", "s", "s">>
CodeNotDefs == <<"u", "n", "d", "e", "f", " ", "f", "(", "x", ")", "\n", "d", "e", "f", "(", "x", ")", "\n", "c", "l", "a", "s", "s", " ", "K", "\n", "'", "'", "'", "o", "p", "e", "n">>

AnalyzerTexts ==
  {CodeExample, CodePlain, CodeNearWords, CodeAllKeywords, CodeKeywordInString,
   CodeEmpty, CodeDocumented, CodeTwoDocs, CodeHalf, CodeThird, CodeNotDefs,
   Repeat(IfLine, 4)}
AnalyzerTags == {PYTHON, PythonCaps, PythonUpper, JAVASCRIPT, <<>>}

\* ------------------------------------------------------------------------
\* Specifications
\* ------------------------------------------------------------------------
Next ==
  \/ \E p \in Callers, a \in ChainInputs : clock < MaxCalls /\ Build(p, a)
  \/ \E p \in Callers : HandOff(p)

Spec == Init /\ [][Next]_vars

\* concurrent callers submitting the versions of one pattern
NextVersions ==
  \/ \E p \in Callers, a \in VersionInputs : clock < MaxCalls /\ Build(p, a)
  \/ \E p \in Callers : HandOff(p)

SpecVersions == Init /\ [][NextVersions]_vars

\* one caller, submissions that vary the text, the override and the identity
NextBuild ==
  \/ \E a \in BuildInputs : clock < MaxBuilds /\ Build(1, a)
  \/ HandOff(1)

SpecBuild == Init /\ [][NextBuild]_vars

\* searches only: find_similar_code reads and writes nothing the builds use
NextFind == \E q \in FindInputs : FindSimilarCode(1, q)

SpecFind == Init /\ [][NextFind]_vars

\* the two analyzer methods, called directly
NextAnalyze ==
  \/ \E code \in AnalyzerTexts, language \in AnalyzerTags :
       CalculateCyclomaticComplexity(1, code, language)
  \/ \E code \in AnalyzerTexts, language \in AnalyzerTags :
       CalculateDocCoverage(1, code, language)

SpecAnalyze == Init /\ [][NextAnalyze]_vars

\* ------------------------------------------------------------------------
\* Vocabulary of the properties
\* ------------------------------------------------------------------------
\* caller p's last call was store_code_pattern / find_similar_code and returned
StoreDone(p) == pc[p] = "idle" /\ args[p].op = "store" /\ ~IsNone(ret[p])
FindDone(p) == pc[p] = "idle" /\ args[p].op = "find" /\ ~IsNone(ret[p])

\* what a call that fails with an error of the given kind would leave in ret
Raised(kind) == Some([raised |-> kind])

IsRecord(r) == ~IsNone(r) /\ "id" \in DOMAIN Get(r)

\* the chain rule for a submission a against the records stored
ChainValid(a, stored) ==
  IF a.version = 1
    THEN IsNone(a.previous_version_id)
    ELSE /\ ~IsNone(a.previous_version_id)
         /\ Get(a.previous_version_id) \in DOMAIN stored
         /\ stored[Get(a.previous_version_id)].version_info.version = a.version - 1

RatingValid(a) ==
  IsNone(a.user_rating) \/ (0 <= Get(a.user_rating) /\ Get(a.user_rating) <= 50)

\* the number a sequence of decimal digits denotes
DigitValue(c) == (CHOOSE i \in DOMAIN Digits : Digits[i] = c) - 1
RECURSIVE DecimalValue(_)
DecimalValue(ds) ==
  IF Len(ds) = 0 THEN 0
  ELSE 10 * DecimalValue(SubSeq(ds, 1, Len(ds) - 1)) + DigitValue(ds[Len(ds)])

\* ------------------------------------------------------------------------
\* C1: a submission with version > 1 whose previous_version_id is null, is
\* not the id of a stored record, or is the id of a stored record of another
\* version than version - 1, fails with InvalidVersionChain.  (Records are
\* never removed from the store, so a chain that is invalid against the
\* store now was invalid when the submission was made.)
\* ------------------------------------------------------------------------
C1_ChainEnforcedAboveOne ==
  \A p \in Callers :
    (StoreDone(p) /\ args[p].version > 1 /\ ~ChainValid(args[p], store))
      => ret[p] = Raised("InvalidVersionChain")

\* ------------------------------------------------------------------------
\* C2: a submission with version 1 and a non-null previous_version_id fails
\* with InvalidVersionChain and returns no record; with a null
\* previous_version_id it does not fail with InvalidVersionChain.
\* ------------------------------------------------------------------------
C2_VersionOneHasNoPredecessor ==
  \A p \in Callers :
    (StoreDone(p) /\ args[p].version = 1)
      => IF IsNone(args[p].previous_version_id)
           THEN ret[p] # Raised("InvalidVersionChain")
           ELSE ret[p] = Raised("InvalidVersionChain") /\ ~IsRecord(ret[p])

\* ------------------------------------------------------------------------
\* C3: every record the store has ingested with version n > 1 names a
\* predecessor that is stored with version n - 1, and every ingested record
\* with version 1 has a null previous_version_id.
\* ------------------------------------------------------------------------
C3_StoredChainsAreLinked ==
  \A i \in DOMAIN store :
    LET info == store[i].version_info
    IN IF info.version = 1
         THEN IsNone(info.previous_version_id)
         ELSE /\ ~IsNone(info.previous_version_id)
              /\ Get(info.previous_version_id) \in DOMAIN store
              /\ store[Get(info.previous_version_id)].version_info.version = info.version - 1

\* ------------------------------------------------------------------------
\* C4: a submission with a rating in [0.0, 5.0] is not failed for its
\* rating; a submission with a rating below 0.0 or above 5.0 fails with
\* InvalidRating and returns no record.
\* ------------------------------------------------------------------------
C4_RatingRangeEnforced ==
  \A p \in Callers :
    (StoreDone(p) /\ ~IsNone(args[p].user_rating))
      => IF RatingValid(args[p])
           THEN ret[p] # Raised("InvalidRating")
           ELSE ret[p] = Raised("InvalidRating") /\ ~IsRecord(ret[p])

\* ------------------------------------------------------------------------
\* C5: the step that completes a submission failing validation (invalid
\* chain or invalid rating) leaves the store as it was, hands no create
\* request to the store and returns no record.
\* ------------------------------------------------------------------------
C5_NoWriteOnValidationFailure ==
  [][\A p \in Callers :
       (/\ pc[p] = "built"
        /\ pc'[p] = "idle"
        /\ ~(ChainValid(args[p], store) /\ RatingValid(args[p])))
         => /\ store' = store
            /\ createCalls' = createCalls
            /\ ~IsRecord(ret'[p])]_vars

\* ------------------------------------------------------------------------
\* C6: the completion of a build hands exactly one create request to the
\* store, no other step hands one, and when the store answers that request
\* with Unavailable or DuplicateId the caller receives that error.
\* ------------------------------------------------------------------------
C6_OneCreateErrorSurfaced ==
  [][/\ \A p \in Callers :
          (pc[p] = "built" /\ pc'[p] = "idle")
            => /\ createCalls' = createCalls + 1
               /\ (Get(answer'[p]) \in {"Unavailable", "DuplicateId"}
                     => ret'[p] = Raised(Get(answer'[p])))
     /\ (\A p \in Callers : ~(pc[p] = "built" /\ pc'[p] = "idle"))
          => createCalls' = createCalls]_vars

\* the part of C6 the code keeps: one create request per completed build,
\* none from any other step, whatever the store answered before
OneCreatePerBuild ==
  [][IF \E p \in Callers : pc[p] = "built" /\ pc'[p] = "idle"
       THEN createCalls' = createCalls + 1
       ELSE createCalls' = createCalls]_vars

\* ------------------------------------------------------------------------
\* C7: without an override the complexity_level of the returned record
\* follows from its cyclomatic_complexity alone: at most 5 is simple, 6 to
\* 10 is intermediate, above 10 is advanced; the example code with one if
\* and one else scores 3 and is simple.
\* ------------------------------------------------------------------------
C7_TierFromScore ==
  \A p \in Callers :
    (StoreDone(p) /\ IsNone(args[p].complexity_level))
      => LET r == Get(ret[p])
             score == r.quality_metrics.cyclomatic_complexity
         IN /\ score <= 5 => r.complexity_level = "simple"
            /\ (6 <= score /\ score <= 10) => r.complexity_level = "intermediate"
            /\ score > 10 => r.complexity_level = "advanced"
            /\ (args[p].code = CodeExample /\ args[p].language = PYTHON)
                 => score = 3 /\ r.complexity_level = "simple"

\* a build without override returned a record scoring exactly 5, simple
C7_Witness ==
  \E p \in Callers :
    /\ StoreDone(p)
    /\ IsNone(args[p].complexity_level)
    /\ Get(ret[p]).quality_metrics.cyclomatic_complexity = 5
    /\ Get(ret[p]).complexity_level = "simple"

\* ------------------------------------------------------------------------
\* C8: with a non-null override the complexity_level of the returned record
\* is the override, whatever the score, and the record still carries the
\* computed cyclomatic_complexity.
\* ------------------------------------------------------------------------
C8_OverrideVerbatim ==
  \A p \in Callers :
    (StoreDone(p) /\ ~IsNone(args[p].complexity_level))
      => LET r == Get(ret[p])
         IN /\ r.complexity_level = Get(args[p].complexity_level)
            /\ r.quality_metrics.cyclomatic_complexity
                 = calculate_cyclomatic_complexity(args[p].code, args[p].language)

\* an override of "simple" was kept on code scoring above 10
C8_Witness ==
  \E p \in Callers :
    /\ StoreDone(p)
    /\ args[p].complexity_level = Some("simple")
    /\ Get(ret[p]).quality_metrics.cyclomatic_complexity > 10
    /\ Get(ret[p]).complexity_level = "simple"

\* ------------------------------------------------------------------------
\* C9: the id of the returned record is the name, character by character
\* lowercased and with "_" for each space, then "_", then the decimal
\* digits of the version; a record stored by an earlier build with the same
\* name and version has the same id, whatever its other fields.
\* ------------------------------------------------------------------------
C9_IdFromNameAndVersion ==
  \A p \in Callers :
    StoreDone(p)
      => LET id == Get(ret[p]).id
             name == args[p].name
             n == Len(name)
         IN /\ Len(id) >= n + 2
            /\ \A i \in 1..n :
                 id[i] = (IF name[i] = " " THEN "_" ELSE LowerChar(name[i]))
            /\ id[n + 1] = "_"
            /\ \A i \in (n + 2)..Len(id) : id[i] \in Range(Digits)
            /\ id[n + 2] # "0"
            /\ DecimalValue(SubSeq(id, n + 2, Len(id))) = args[p].version
            /\ \A i \in DOMAIN store :
                 (store[i].name = name /\ store[i].version_info.version = args[p].version)
                   => store[i].id = id

\* "Binary search", version 1, was given the id binary_search_1
C9_Witness ==
  \E p \in Callers :
    /\ StoreDone(p)
    /\ args[p].name = NameBinary
    /\ args[p].version = 1
    /\ Get(ret[p]).id = <<"b", "i", "n", "a", "r", "y", "_", "s", "e", "a", "r", "c", "h", "_", "1">>

\* ------------------------------------------------------------------------
\* C10: the filters of a search hold a clause for a constraint exactly when
\* that constraint was passed (non-null): language, complexity_level,
\* user_rating (for min_rating, 0 included) and tags; no other clause.
\* ------------------------------------------------------------------------
HasClause(f, field) == \E i \in DOMAIN f : f[i].clause = field

C10_ClauseIffSupplied ==
  \A p \in Callers :
    FindDone(p)
      => LET f == filters[p]
             q == args[p]
         IN /\ HasClause(f, "language") <=> ~IsNone(q.language)
            /\ HasClause(f, "complexity_level") <=> ~IsNone(q.complexity_level)
            /\ HasClause(f, "user_rating") <=> ~IsNone(q.min_rating)
            /\ HasClause(f, "tags") <=> ~IsNone(q.required_tags)
            /\ \A i \in DOMAIN f :
                 f[i].clause \in {"language", "complexity_level", "user_rating", "tags"}

\* ------------------------------------------------------------------------
\* C11 as claimed: the clauses are joined with " AND " in the order language,
\* complexity_level, rating, tags, and the search language="python",
\* min_rating=4.0, required_tags=["algorithm"] prints exactly
\* language='python' AND userRating>=4.0 AND tags include ['algorithm'].
\* ------------------------------------------------------------------------
ClauseRank(field) ==
  IF field = "language" THEN 1
  ELSE IF field = "complexity_level" THEN 2
  ELSE IF field = "user_rating" THEN 3
  ELSE 4

ClausesInOrder(f) ==
  \A i \in DOMAIN f : \A j \in DOMAIN f :
    i < j => ClauseRank(f[i].clause) < ClauseRank(f[j].clause)

\* occurrences of " AND " in a printed filter string
CountAnd(text) ==
  Cardinality({i \in 1..Len(text) : OccursAt(<<" ", "A", "N", "D", " ">>, text, i)})

JoinedWithAnd(f, text) ==
  CountAnd(text) = (IF Len(f) = 0 THEN 0 ELSE Len(f) - 1)

ScenarioQuery == FindArgs(Some(PYTHON), None, Some(40), Some(<<ALGORITHM>>))

C11_AsClaimed ==
  \A p \in Callers :
    FindDone(p)
      => /\ ClausesInOrder(filters[p])
         /\ JoinedWithAnd(filters[p], filter_str[p])
         /\ args[p] = ScenarioQuery
              => filter_str[p] = <<"l", "a", "n", "g", "u", "a", "g", "e", "=", "'", "p", "y", "t", "h", "o", "n", "'", " ", "A", "N", "D", " ", "u", "s", "e", "r", "R", "a", "t", "i", "n", "g", ">", "=", "4", ".", "0", " ", "A", "N", "D", " ", "t", "a", "g", "s", " ", "i", "n", "c", "l", "u", "d", "e", " ", "[", "'", "a", "l", "g", "o", "r", "i", "t", "h", "m", "'", "]">>

\* C11 as amended: the same, with the rating clause spelled as the code
\* spells it: language='python' AND user_rating>=4.0 AND tags include
\* ['algorithm']; with all four constraints the complexity_level clause
\* stands second.
C11_OrderedAndJoined ==
  \A p \in Callers :
    FindDone(p)
      => /\ ClausesInOrder(filters[p])
         /\ JoinedWithAnd(filters[p], filter_str[p])
         /\ args[p] = ScenarioQuery
              => filter_str[p] = <<"l", "a", "n", "g", "u", "a", "g", "e", "=", "'", "p", "y", "t", "h", "o", "n", "'", " ", "A", "N", "D", " ", "u", "s", "e", "r", "_", "r", "a", "t", "i", "n", "g", ">", "=", "4", ".", "0", " ", "A", "N", "D", " ", "t", "a", "g", "s", " ", "i", "n", "c", "l", "u", "d", "e", " ", "[", "'", "a", "l", "g", "o", "r", "i", "t", "h", "m", "'", "]">>
         /\ args[p] = FindArgs(Some(PYTHON), Some(INTERMEDIATE), Some(40), Some(<<ALGORITHM>>))
              => filter_str[p] = <<"l", "a", "n", "g", "u", "a", "g", "e", "=", "'", "p", "y", "t", "h", "o", "n", "'", " ", "A", "N", "D", " ", "c", "o", "m", "p", "l", "e", "x", "i", "t", "y", "_", "l", "e", "v", "e", "l", "=", "'", "i", "n", "t", "e", "r", "m", "e", "d", "i", "a", "t", "e", "'", " ", "A", "N", "D", " ", "u", "s", "e", "r", "_", "r", "a", "t", "i", "n", "g", ">", "=", "4", ".", "0", " ", "A", "N", "D", " ", "t", "a", "g", "s", " ", "i", "n", "c", "l", "u", "d", "e", " ", "[", "'", "a", "l", "g", "o", "r", "i", "t", "h", "m", "'", "]">>

\* the scenario search was made and printed three clauses
C11_Witness ==
  \E p \in Callers :
    /\ FindDone(p)
    /\ args[p] = ScenarioQuery
    /\ Len(filters[p]) = 3
    /\ CountAnd(filter_str[p]) = 2

\* ------------------------------------------------------------------------
\* C12: for a language tag spelling "python" in any letter case the
\* complexity is 1 plus the number of whole words of the code that are one
\* of if, elif, else, for, while, with, try, except (so at least 1, and 1
\* when there is none); for any other tag it is 1.
\* ------------------------------------------------------------------------
ComplexityDone(p) == pc[p] = "idle" /\ args[p].op = "complexity" /\ ~IsNone(ret[p])

SpellsPython(tag) ==
  /\ Len(tag) = 6
  /\ tag[1] \in {"p", "P"} /\ tag[2] \in {"y", "Y"} /\ tag[3] \in {"t", "T"}
  /\ tag[4] \in {"h", "H"} /\ tag[5] \in {"o", "O"} /\ tag[6] \in {"n", "N"}

\* the maximal runs of word characters of a text, as <<first, last>>
Words(text) ==
  {<<i, j>> \in (1..Len(text)) \X (1..Len(text)) :
     /\ i <= j
     /\ \A k \in i..j : IsWord(text[k])
     /\ (i = 1 \/ ~IsWord(text[i - 1]))
     /\ (j = Len(text) \/ ~IsWord(text[j + 1]))}

KeywordWords(text) ==
  Cardinality({w \in Words(text) :
     SubSeq(text, w[1], w[2]) \in
       {<<"i", "f">>, <<"e", "l", "i", "f">>, <<"e", "l", "s", "e">>, <<"f", "o", "r">>,
        <<"w", "h", "i", "l", "e">>, <<"w", "i", "t", "h">>, <<"t", "r", "y">>,
        <<"e", "x", "c", "e", "p", "t">>}})

C12_ComplexityCountsKeywords ==
  \A p \in Callers :
    ComplexityDone(p)
      => /\ Get(ret[p]) >= 1
         /\ Get(ret[p]) =
              (IF SpellsPython(args[p].language) THEN 1 + KeywordWords(args[p].code) ELSE 1)

\* the text with each of the eight keywords once, tagged "Python", scored 9
C12_Witness ==
  \E p \in Callers :
    /\ ComplexityDone(p)
    /\ args[p].code = CodeAllKeywords
    /\ args[p].language = PythonCaps
    /\ Get(ret[p]) = 9

\* ------------------------------------------------------------------------
\* C13: for the python rules the coverage is exactly 1.0 when the code has
\* no definition site and min(1.0, docstrings / definitions) otherwise; it
\* always lies in [0.0, 1.0]; for any other language tag it is 0.5.
\* ------------------------------------------------------------------------
CoverageDone(p) == pc[p] = "idle" /\ args[p].op = "coverage" /\ ~IsNone(ret[p])

\* the ratio r equals num / den
RatioIs(r, num, den) == r.den > 0 /\ r.num * den = num * r.den

C13_CoverageClampedRatio ==
  \A p \in Callers :
    CoverageDone(p)
      => LET r == Get(ret[p])
             docs == DocstringCount(args[p].code)
             defs == DefinitionCount(args[p].code)
         IN /\ r.den > 0 /\ 0 <= r.num /\ r.num <= r.den
            /\ IF ~SpellsPython(args[p].language) THEN RatioIs(r, 1, 2)
               ELSE IF defs = 0 THEN RatioIs(r, 1, 1)
               ELSE IF docs >= defs THEN RatioIs(r, 1, 1)
               ELSE RatioIs(r, docs, defs)
            /\ (SpellsPython(args[p].language) /\ args[p].code = CodeHalf) => RatioIs(r, 1, 2)
            /\ (SpellsPython(args[p].language) /\ args[p].code = CodeThird) => RatioIs(r, 1, 3)
            /\ (SpellsPython(args[p].language) /\ args[p].code = CodeExample) => RatioIs(r, 0, 1)
            /\ (SpellsPython(args[p].language) /\ args[p].code = CodeNotDefs) => RatioIs(r, 1, 1)

\* one definition with two docstrings was given coverage 1.0, not 2.0
C13_Witness ==
  \E p \in Callers :
    /\ CoverageDone(p)
    /\ args[p].code = CodeTwoDocs
    /\ args[p].language = PYTHON
    /\ DocstringCount(args[p].code) = 2
    /\ DefinitionCount(args[p].code) = 1
    /\ RatioIs(Get(ret[p]), 1, 1)

\* ------------------------------------------------------------------------
\* C14: the returned record has the field user_rating exactly when the call
\* passed a rating, and then with the value passed; a call that passed 0
\* returns a record with user_rating 0, which differs from the record of
\* the same call without a rating.
\* ------------------------------------------------------------------------
C14_RatingPresentIffSupplied ==
  \A p \in Callers :
    StoreDone(p)
      => LET record == Get(ret[p])
         IN /\ ("user_rating" \in DOMAIN record) <=> (args[p].user_rating # None)
            /\ args[p].user_rating # None
                 => /\ record.user_rating = args[p].user_rating.some
                    /\ \A i \in DOMAIN store :
                         "user_rating" \notin DOMAIN store[i] => store[i] # record

\* a call that passed the rating 0 returned a record with user_rating 0
\* while the store holds the record of an earlier call without a rating
C14_Witness ==
  \E p \in Callers :
    /\ StoreDone(p)
    /\ args[p].user_rating = Some(0)
    /\ Get(ret[p]).user_rating = 0
    /\ \E i \in DOMAIN store :
         /\ store[i].name = args[p].name
         /\ "user_rating" \notin DOMAIN store[i]

\* ------------------------------------------------------------------------
\* C15: two callers that submit the same name and version carry the same
\* id, also when both were built before either was handed to the store; the
\* store answers Ok to at most one of them, the other is answered
\* DuplicateId (Unavailable if the store could not be reached), and the
\* record the store holds under that id is the one answered Ok.
\* ------------------------------------------------------------------------
SameSubmission(p, q) ==
  /\ p # q
  /\ args[p].op = "store" /\ args[q].op = "store"
  /\ information[p] # None /\ information[q] # None
  /\ args[p].name = args[q].name
  /\ args[p].version = args[q].version

SlugChar(c) == IF c = " " THEN "_" ELSE LowerChar(c)

SameSlug(a, b) ==
  /\ Len(a) = Len(b)
  /\ \A i \in 1..Len(a) : SlugChar(a[i]) = SlugChar(b[i])

C17_OneLookupPerBuild ==
  [][\A p \in Callers :
       (pc[p] = "idle" /\ pc'[p] = "built")
         => /\ getCalls' = getCalls + 1
            /\ store' = store
            /\ createCalls' = createCalls]_vars

\* the part of C17 the code keeps: a build writes nothing to the store
BuildWritesNothing ==
  [][\A p \in Callers :
       (pc[p] = "idle" /\ pc'[p] = "built")
         => store' = store /\ createCalls' = createCalls]_vars

\* ------------------------------------------------------------------------
\* C18: no step changes or removes a stored record; an accepted submission
\* adds exactly one record, under a new id, carrying the previous_version_id
\* it was called with; and the returned record is determined by the call's
\* arguments and the time of the call: two calls with equal arguments
\* return records that differ at most in updated_at, whatever was built or
\* stored before.
\* ------------------------------------------------------------------------
SameButTime(r1, r2) ==
  [r1 EXCEPT !.version_info.updated_at = 0] = [r2 EXCEPT !.version_info.updated_at = 0]

C18_StoredRecordsNeverChange ==
  [][/\ \A i \in DOMAIN store : i \in DOMAIN store' /\ store'[i] = store[i]
     /\ \A p \in Callers :
          (pc[p] = "built" /\ pc'[p] = "idle" /\ answer'[p] = Some("Ok"))
            => LET record == Get(ret'[p])
               IN /\ record.id \notin DOMAIN store
                  /\ DOMAIN store' = DOMAIN store \cup {record.id}
                  /\ store'[record.id] = record
                  /\ record.version_info.previous_version_id = args[p].previous_version_id
                  /\ record.version_info.version = args[p].version
     /\ \A p \in Callers : \A q \in Callers :
          (StoreDone(p)' /\ StoreDone(q)' /\ args'[p] = args'[q])
            => SameButTime(Get(ret'[p]), Get(ret'[q]))]_vars

\* version 2 is stored as a record of its own that names the stored version
\* 1, which is still what it was when it was built, earlier
C18_Witness ==
  \E p \in Callers :
    /\ StoreDone(p)
    /\ args[p].version = 2
    /\ answer[p] = Some("Ok")
    /\ store[Get(ret[p]).id] = Get(ret[p])
    /\ Get(ret[p]).version_info.previous_version_id = Some(AssignId(NameAb, 1))
    /\ AssignId(NameAb, 1) \in DOMAIN store
    /\ store[AssignId(NameAb, 1)].version_info.version = 1
    /\ store[AssignId(NameAb, 1)].version_info.updated_at
         < Get(ret[p]).version_info.updated_at

====
